---- MODULE Spec2Model ----
(***************************************************************************)
(* Model of convert_chat.py: the Markdown-lite formatter format_content    *)
(* and the conversation walker convert_conversation_to_html.               *)
(*                                                                         *)
(* Text is a sequence of tokens.  A character of the input is a string of  *)
(* one character; a piece of HTML inserted by the program is one token     *)
(* such as "<ul>".  No inserted tag contains a character that a later rule *)
(* of the formatter looks for, so treating a tag as one token does not     *)
(* change what the later rules do.                                         *)
(***************************************************************************)
EXTENDS Integers, Sequences, FiniteSets, TLC

(***************************************************************************)
(* Bounds of the model.                                                    *)
(***************************************************************************)
MaxLines == 3
MaxMsgs == 2
MaxSteps == 2

(***************************************************************************)
(* Program constants.                                                      *)
(***************************************************************************)
MaxHashes == 6

Tags ==
  { "<pre>", "<code>", "</code>", "</pre>", "<h3>", "</h3>", "<strong>",
    "</strong>", "<em>", "</em>", "<del>", "</del>", "<ul>", "<li>", "</li>",
    "</ul>", "<p>", "</p>", "<blockquote>", "</blockquote>", "<br>" }

NL == "\n"

\* the backquote character (a string cannot hold it, so it has a name)
BT == "BACKQUOTE"

\* str.isspace for the characters of the model
IsWs(c) == c \in {" ", NL}

Min(S) == CHOOSE x \in S : \A y \in S : x <= y

\* s[p:].startswith(pat), p counted from 1
StartsWithAt(s, p, pat) ==
  /\ p >= 1
  /\ p + Len(pat) - 1 <= Len(s)
  /\ SubSeq(s, p, p + Len(pat) - 1) = pat

\* first position >= q where pat occurs, 0 when there is none
FindFrom(s, q, pat) ==
  LET C == { j \in q..Len(s) : StartsWithAt(s, j, pat) }
  IN IF C = {} THEN 0 ELSE Min(C)

\* number of occurrences of token t
Count(s, t) == Cardinality({ j \in 1..Len(s) : s[j] = t })

\* s contains pat as a contiguous piece
Contains(s, pat) == \E j \in 1..(Len(s) + 1) : StartsWithAt(s, j, pat)

(***************************************************************************)
(* re.sub of  open (body) close  with a lazy body: leftmost match first,   *)
(* the body ends at the nearest close, the body has at least minBody       *)
(* tokens, none of them in bad; the match becomes lt body rt.              *)
(***************************************************************************)
RECURSIVE SubDelim(_, _, _, _, _, _, _, _)
SubDelim(s, p, open, close, minBody, bad, lt, rt) ==
  IF p > Len(s) THEN << >>
  ELSE IF StartsWithAt(s, p, open)
    THEN LET b == p + Len(open)
             q == FindFrom(s, b + minBody, close)
         IN IF q # 0 /\ \A j \in b..(q - 1) : s[j] \notin bad
              THEN lt \o SubSeq(s, b, q - 1) \o rt
                      \o SubDelim(s, q + Len(close), open, close, minBody, bad, lt, rt)
              ELSE << s[p] >> \o SubDelim(s, p + 1, open, close, minBody, bad, lt, rt)
    ELSE << s[p] >> \o SubDelim(s, p + 1, open, close, minBody, bad, lt, rt)

\* position p is where ^ matches under re.MULTILINE
AtLineStart(s, p) == p = 1 \/ s[p - 1] = NL

\* length of the run of token c starting at p
RECURSIVE RunLen(_, _, _)
RunLen(s, p, c) ==
  IF p <= Len(s) /\ s[p] = c THEN 1 + RunLen(s, p + 1, c) ELSE 0

\* first position >= p that is not whitespace (Len(s)+1 when there is none)
RECURSIVE SkipWs(_, _)
SkipWs(s, p) == IF p <= Len(s) /\ IsWs(s[p]) THEN SkipWs(s, p + 1) ELSE p

\* first position >= p holding a newline (Len(s)+1 when there is none)
RECURSIVE LineEnd(_, _)
LineEnd(s, p) == IF p <= Len(s) /\ s[p] # NL THEN LineEnd(s, p + 1) ELSE p

(***************************************************************************)
(* re.sub of a line prefix: at a line start, a run of 1..maxRun tokens c,  *)
(* then greedy whitespace (newlines too), then the rest of the line as the *)
(* group (re.MULTILINE).                                                   *)
(***************************************************************************)
RECURSIVE SubLinePrefix(_, _, _, _, _, _)
SubLinePrefix(s, p, c, maxRun, lt, rt) ==
  IF p > Len(s) THEN << >>
  ELSE IF AtLineStart(s, p) /\ s[p] = c
    THEN LET n == RunLen(s, p, c)
             w == p + n
         IN IF n <= maxRun /\ w <= Len(s) /\ IsWs(s[w])
              THEN LET b == SkipWs(s, w)
                       e == LineEnd(s, b)
                   IN lt \o SubSeq(s, b, e - 1) \o rt
                         \o SubLinePrefix(s, e, c, maxRun, lt, rt)
              ELSE << s[p] >> \o SubLinePrefix(s, p + 1, c, maxRun, lt, rt)
    ELSE << s[p] >> \o SubLinePrefix(s, p + 1, c, maxRun, lt, rt)

\* str.replace(old, new): leftmost, non-overlapping
RECURSIVE Replace(_, _, _, _)
Replace(s, p, old, new) ==
  IF p > Len(s) THEN << >>
  ELSE IF StartsWithAt(s, p, old)
    THEN new \o Replace(s, p + Len(old), old, new)
    ELSE << s[p] >> \o Replace(s, p + 1, old, new)

\* str.split('\n')
RECURSIVE Split(_, _)
Split(s, p) ==
  LET e == LineEnd(s, p)
  IN IF e > Len(s) THEN << SubSeq(s, p, Len(s)) >>
     ELSE << SubSeq(s, p, e - 1) >> \o Split(s, e + 1)

\* '\n'.join(ls)
RECURSIVE Join(_)
Join(ls) ==
  IF Len(ls) = 0 THEN << >>
  ELSE IF Len(ls) = 1 THEN ls[1]
  ELSE ls[1] \o << NL >> \o Join(Tail(ls))

\* str.strip()
Strip(s) ==
  LET K == { j \in 1..Len(s) : ~IsWs(s[j]) }
  IN IF K = {} THEN << >>
     ELSE SubSeq(s, Min(K), CHOOSE x \in K : \A y \in K : y <= x)

\* s[2:]
DropTwo(s) == SubSeq(s, 3, Len(s))

\* the substitutions of format_content before the line scan
InlineCode(s) ==
  SubDelim(SubDelim(s, 1, <<BT, BT, BT>>, <<BT, BT, BT>>, 0, {},
                    <<"<pre>", "<code>">>, <<"</code>", "</pre>">>),
           1, <<BT>>, <<BT>>, 1, {BT}, <<"<code>">>, <<"</code>">>)

Headers(s) == SubLinePrefix(s, 1, "#", MaxHashes, <<"<h3>">>, <<"</h3>">>)

Bold(s) ==
  SubDelim(SubDelim(s, 1, <<"*", "*">>, <<"*", "*">>, 0, {NL},
                    <<"<strong>">>, <<"</strong>">>),
           1, <<"_", "_">>, <<"_", "_">>, 0, {NL}, <<"<strong>">>, <<"</strong>">>)

Italic(s) ==
  SubDelim(SubDelim(s, 1, <<"*">>, <<"*">>, 0, {NL}, <<"<em>">>, <<"</em>">>),
           1, <<"_">>, <<"_">>, 0, {NL}, <<"<em>">>, <<"</em>">>)

Strike(s) ==
  SubDelim(s, 1, <<"~", "~">>, <<"~", "~">>, 0, {NL}, <<"<del>">>, <<"</del>">>)

Inline(s) == Strike(Italic(Bold(Headers(InlineCode(s)))))

\* line.strip().startswith(('- ', '* '))
IsListLine(ln) ==
  \/ StartsWithAt(Strip(ln), 1, <<"-", " ">>)
  \/ StartsWithAt(Strip(ln), 1, <<"*", " ">>)

\* line.startswith('- ') or line.startswith('* ')
HasMarker(ln) ==
  \/ StartsWithAt(ln, 1, <<"-", " ">>)
  \/ StartsWithAt(ln, 1, <<"*", " ">>)

ListItem(ln) == <<"<li>">> \o Strip(DropTwo(ln)) \o <<"</li>">>

\* Prev as it would be if the scan wrote to the line it is examining
Prev_current(ls, k) == k

\* lines[i-1] of Python: index -1 is the last line
Prev(ls, k) == IF k = 1 THEN Len(ls) ELSE k - 1

\* ScanLine as it would be if the flag in_list were never consulted when a
\* list line is met: every list line opens a list of its own
ScanLine_reopen(ls, k, fl) ==
  LET ln == ls[k]
  IN IF IsListLine(ln)
       THEN [ls |-> [ls EXCEPT ![k] = <<"<ul>">> \o ListItem(ln)], fl |-> TRUE]
     ELSE IF fl /\ Strip(ln) # << >>
       THEN IF ~HasMarker(ln)
              THEN [ls |-> [ls EXCEPT ![Prev(ls, k)] = @ \o <<"</ul>", "<p>">> \o ln],
                    fl |-> FALSE]
              ELSE [ls |-> [ls EXCEPT ![k] = ListItem(ln)], fl |-> fl]
     ELSE IF fl
       THEN [ls |-> [ls EXCEPT ![Prev(ls, k)] = @ \o <<"</ul>">>], fl |-> FALSE]
     ELSE [ls |-> ls, fl |-> fl]

(***************************************************************************)
(* One iteration of the line scan: line k (from 1) is examined with the    *)
(* flag fl; the result is the new list of lines and the new flag.          *)
(***************************************************************************)
ScanLine(ls, k, fl) ==
  LET ln == ls[k]
  IN IF IsListLine(ln)
       THEN IF ~fl
              THEN [ls |-> [ls EXCEPT ![k] = <<"<ul>">> \o ListItem(ln)], fl |-> TRUE]
              ELSE [ls |-> [ls EXCEPT ![k] = ListItem(ln)], fl |-> TRUE]
     ELSE IF fl /\ Strip(ln) # << >>
       THEN IF ~HasMarker(ln)
              THEN [ls |-> [ls EXCEPT ![Prev(ls, k)] = @ \o <<"</ul>", "<p>">> \o ln],
                    fl |-> FALSE]
              ELSE [ls |-> [ls EXCEPT ![k] = ListItem(ln)], fl |-> fl]
     ELSE IF fl
       THEN [ls |-> [ls EXCEPT ![Prev(ls, k)] = @ \o <<"</ul>">>], fl |-> FALSE]
     ELSE [ls |-> ls, fl |-> fl]

RECURSIVE ScanFrom(_, _, _)
ScanFrom(ls, k, fl) ==
  IF k > Len(ls) THEN ls
  ELSE LET r == ScanLine(ls, k, fl) IN ScanFrom(r.ls, k + 1, r.fl)

Blockquotes(s) ==
  SubLinePrefix(s, 1, ">", 1, <<"<blockquote>">>, <<"</blockquote>">>)

Breaks(s) ==
  Replace(Replace(s, 1, <<NL, NL>>, <<"</p>", "<p>">>), 1, <<NL>>, <<"<br>">>)

\* formatted.startswith('<')
StartsWithLt(s) == Len(s) > 0 /\ (s[1] \in Tags \/ s[1] = "<")

Wrap(s) == IF StartsWithLt(s) THEN s ELSE <<"<p>">> \o s \o <<"</p>">>

\* everything format_content does after the line scan
Finish(ls) == Wrap(Breaks(Blockquotes(Join(ls))))

format_content(s) ==
  IF s = << >> THEN << >>
  ELSE Finish(ScanFrom(Split(Inline(s), 1), 1, FALSE))

(***************************************************************************)
(* The parsed JSON document.  A JSON object is a record that has exactly   *)
(* the keys that are present, a JSON array is a sequence, a JSON string is *)
(* a sequence of characters where the program looks inside it and a plain  *)
(* string where it only compares or prints it.                             *)
(***************************************************************************)
Empty == [k \in {} |-> 0]

\* 'k' in d
Has(d, k) == k \in DOMAIN d

\* d.get(k, def)
Get(d, k, def) == IF Has(d, k) THEN d[k] ELSE def

\* truth value of a mapping, a list or a string: it is not empty
Truthy(v) == DOMAIN v # {}

None == "None"

Uppers == <<"A", "B", "C", "D", "E", "F", "G", "H", "I", "J", "K", "L", "M",
            "N", "O", "P", "Q", "R", "S", "T", "U", "V", "W", "X", "Y", "Z">>
Lowers == <<"a", "b", "c", "d", "e", "f", "g", "h", "i", "j", "k", "l", "m",
            "n", "o", "p", "q", "r", "s", "t", "u", "v", "w", "x", "y", "z">>

LowerChar(c) ==
  IF \E j \in 1..26 : Uppers[j] = c
    THEN Lowers[CHOOSE j \in 1..26 : Uppers[j] = c] ELSE c

UpperChar(c) ==
  IF \E j \in 1..26 : Lowers[j] = c
    THEN Uppers[CHOOSE j \in 1..26 : Lowers[j] = c] ELSE c

\* str.lower()
Lower(s) == [j \in 1..Len(s) |-> LowerChar(s[j])]

\* str.capitalize()
Capitalize(s) ==
  [j \in 1..Len(s) |-> IF j = 1 THEN UpperChar(s[j]) ELSE LowerChar(s[j])]

\* the strings the program compares with, as characters
Str ==
  [ assistant |-> <<"a", "s", "s", "i", "s", "t", "a", "n", "t">>,
    user |-> <<"u", "s", "e", "r">>,
    unknown |-> <<"u", "n", "k", "n", "o", "w", "n">>,
    Unknown |-> <<"U", "n", "k", "n", "o", "w", "n">>,
    thinking |-> <<"t", "h", "i", "n", "k", "i", "n", "g">>,
    ThoughtFor |-> <<"T", "h", "o", "u", "g", "h", "t", " ", "f", "o", "r">>,
    seconds |-> <<"s", "e", "c", "o", "n", "d", "s">> ]

\* the characters of the keys that str() of a mapping prints
KeyChars ==
  [type |-> <<"t", "y", "p", "e">>,
   title |-> <<"t", "i", "t", "l", "e">>,
   q |-> <<"q">>]

\* the keys of a mapping in the order the document lists them
KeyOrder == <<"type", "title", "q">>

RECURSIVE StrEntries(_, _, _)
StrEntries(d, j, first) ==
  IF j > Len(KeyOrder) THEN << >>
  ELSE IF Has(d, KeyOrder[j])
    THEN (IF first THEN << >> ELSE <<",", " ">>)
         \o <<"'">> \o KeyChars[KeyOrder[j]] \o <<"'", ":", " ", "'">>
         \o d[KeyOrder[j]] \o <<"'">> \o StrEntries(d, j + 1, FALSE)
    ELSE StrEntries(d, j + 1, first)

\* str(d) of a mapping whose values are strings
StrDict(d) == <<"{">> \o StrEntries(d, 1, TRUE) \o <<"}">>

(***************************************************************************)
(* Pieces of the HTML that convert_conversation_to_html emits.             *)
(***************************************************************************)
Html ==
  [ SysOpen |-> "<div class=\"system-prompt\">",
    SysTitle |-> "<div class=\"system-prompt-title\">System Prompt</div>",
    MsgOpen |-> "<div class=\"message ",
    MsgClose |-> "</div></div>",
    BubbleOpen |-> "<div class=\"message-bubble\">",
    HeaderOpen |-> "<div class=\"message-header\">",
    RoleOpen |-> "<span class=\"message-role\">",
    TsOpen |-> "<span class=\"message-timestamp\">",
    ThinkOpen |-> "<div class=\"thinking-process\">",
    ThinkTitle |-> "<strong>Thinking Process:</strong><br>",
    DurOpen |-> "<div class=\"thinking-duration\">",
    RespOpen |-> "<div class=\"response-content\">",
    RespTitle |-> "<strong>Model Response:</strong><br>",
    StatsOpen |-> "<div class=\"stats-section\">",
    StatsTitle |-> "<div class=\"stats-title\">Model Generation Statistics</div>",
    StatItemOpen |-> "<div class=\"stat-item\">",
    ToolsOpen |-> "<div class=\"tool-calls\">",
    ToolItemOpen |-> "<div class=\"tool-call-item\">",
    ToolsTitle |-> "<strong>Tool Calls:</strong>",
    ToolNameOpen |-> "<span class=\"tool-name\">",
    DivOpen |-> "<div>",
    DivClose |-> "</div>",
    SpanClose |-> "</span>",
    ChatOpen |-> "<div class=\"chat-container\" id=\"chatContainer\">" ]

\* SystemPromptHtml as it would be if the presence of the key were tested
\* instead of the value
SystemPromptHtml_keyPresent(d) ==
  IF Has(d, "systemPrompt")
    THEN <<Html.SysOpen, Html.SysTitle, Html.DivOpen>>
         \o Replace(d.systemPrompt, 1, <<"\\", "n">>, <<"<br>">>)
         \o <<Html.DivClose, Html.DivClose>>
    ELSE << >>

\* the system prompt block; the replace is of backslash-n, two characters
SystemPromptHtml(d) ==
  IF Truthy(Get(d, "systemPrompt", << >>))
    THEN <<Html.SysOpen, Html.SysTitle, Html.DivOpen>>
         \o Replace(d.systemPrompt, 1, <<"\\", "n">>, <<"<br>">>)
         \o <<Html.DivClose, Html.DivClose>>
    ELSE << >>

\* datetime.fromtimestamp(ms/1000).strftime(...): the whole seconds of ms,
\* written here as their count instead of as a calendar date
FormatTimestamp(ms) == <<ToString(ms \div 1000)>>

\* timestamp of a version, "" when there is none
Timestamp(version) ==
  IF Has(version, "preprocessed") /\ Has(version.preprocessed, "timestamp")
    THEN FormatTimestamp(version.preprocessed.timestamp)
    ELSE << >>

\* ScanContent as it would be if the text parts were accumulated
RECURSIVE ScanContent_accumulate(_, _, _)
ScanContent_accumulate(parts, j, mc) ==
  IF j > Len(parts) THEN [ok |-> TRUE, val |-> mc]
  ELSE IF Get(parts[j], "type", None) = "text"
    THEN IF Has(parts[j], "text")
           THEN ScanContent_accumulate(parts, j + 1, mc \o parts[j].text)
           ELSE [ok |-> FALSE, val |-> mc]
    ELSE ScanContent_accumulate(parts, j + 1, mc)

(***************************************************************************)
(* for part in content_parts: the last text part wins; part['text'] of a   *)
(* text part without text raises KeyError (ok = FALSE).                    *)
(***************************************************************************)
RECURSIVE ScanContent(_, _, _)
ScanContent(parts, j, mc) ==
  IF j > Len(parts) THEN [ok |-> TRUE, val |-> mc]
  ELSE IF Get(parts[j], "type", None) = "text"
    THEN IF Has(parts[j], "text")
           THEN ScanContent(parts, j + 1, parts[j].text)
           ELSE [ok |-> FALSE, val |-> mc]
    ELSE ScanContent(parts, j + 1, mc)

MessageContent(version) == ScanContent(Get(version, "content", << >>), 1, << >>)

Role(version) == Get(version, "role", Str.unknown)

\* the message bubble up to the formatted message text
MessageHead(version) ==
  <<Html.MsgOpen>> \o Role(version) \o <<"\">", Html.BubbleOpen, Html.HeaderOpen, Html.RoleOpen>>
  \o Capitalize(Role(version)) \o <<Html.SpanClose>>
  \o (IF Timestamp(version) # << >>
        THEN <<Html.TsOpen>> \o Timestamp(version) \o <<Html.SpanClose>> ELSE << >>)
  \o <<Html.DivClose, Html.DivOpen>>
  \o format_content(MessageContent(version).val) \o <<Html.DivClose>>

\* 'versions' in message and len(message['versions']) > 0
HasVersion(msg) == Has(msg, "versions") /\ Len(msg.versions) > 0

\* role == 'assistant' and 'steps' in version
HasSteps(version) == Role(version) = Str.assistant /\ Has(version, "steps")

(***************************************************************************)
(* Generation statistics of one step (the body of the first loop over      *)
(* version['steps']).  A statistics item is the sequence of its tokens.    *)
(***************************************************************************)
Item(label, val) == << <<label>> \o val >>

\* an item for key k of stats when the key is present
KeyItem(stats, k, label, suffix) ==
  IF Has(stats, k) THEN Item(label, <<ToString(stats[k])>> \o suffix) ELSE << >>

BasicItems(stats) ==
  (IF Has(stats, "stopReason")
     THEN Item("Stop Reason: ", <<stats.stopReason>>) ELSE << >>)
  \o KeyItem(stats, "tokensPerSecond", "Tokens Per Second: ", << >>)
  \o KeyItem(stats, "timeToFirstTokenSec", "Time to First Token: ", <<"s">>)
  \o KeyItem(stats, "totalTimeSec", "Total Time: ", <<"s">>)
  \o KeyItem(stats, "promptTokensCount", "Prompt Tokens: ", << >>)
  \o KeyItem(stats, "predictedTokensCount", "Predicted Tokens: ", << >>)
  \o KeyItem(stats, "totalTokensCount", "Total Tokens: ", << >>)

\* model_identifier.split('/')[-1] if '/' in model_identifier else model_identifier
LastSegment(s) ==
  LET K == { j \in 1..Len(s) : s[j] = "/" }
  IN IF K = {} THEN s
     ELSE SubSeq(s, (CHOOSE x \in K : \A y \in K : y <= x) + 1, Len(s))

ModelItems(gen_info) ==
  IF Get(gen_info, "indexedModelIdentifier", Str.Unknown) # Str.Unknown
    THEN Item("Model: ", LastSegment(gen_info.indexedModelIdentifier))
    ELSE << >>

\* gen_info['loadModelConfig'].get('fields', []) when the configuration is there
ConfigFields(gen_info) ==
  IF Has(gen_info, "loadModelConfig") /\ Truthy(gen_info.loadModelConfig)
    THEN Get(gen_info.loadModelConfig, "fields", << >>)
    ELSE << >>

\* the keys of the load configuration the program looks for
ConfigKey ==
  [ ctx |-> "llm.load.contextLength",
    vquant |-> "llm.load.llama.vCacheQuantizationType",
    kquant |-> "llm.load.llama.kCacheQuantizationType",
    cpu |-> "llm.load.llama.cpuThreadPoolSize" ]

\* str() of field.get('value') for a number or None
ValueStr(field) ==
  IF Has(field, "value") THEN <<ToString(field.value)>> ELSE <<None>>

\* field.get('value', {}).get('value', 'Unknown')
QuantStr(field) == <<Get(Get(field, "value", Empty), "value", "Unknown")>>

\* the items one loop over the configuration fields appends
RECURSIVE FieldItems(_, _, _)
FieldItems(fields, j, loop) ==
  IF j > Len(fields) THEN << >>
  ELSE LET field == fields[j]
           key == Get(field, "key", None)
       IN (IF loop = "context" /\ key = ConfigKey.ctx
             THEN Item("Context Length: ", ValueStr(field))
           ELSE IF loop = "quant" /\ key = ConfigKey.vquant
             THEN Item("V Cache Quant: ", QuantStr(field))
           ELSE IF loop = "quant" /\ key = ConfigKey.kquant
             THEN Item("K Cache Quant: ", QuantStr(field))
           ELSE IF loop = "cpu" /\ key = ConfigKey.cpu
             THEN Item("CPU Threads: ", ValueStr(field))
           ELSE << >>)
          \o FieldItems(fields, j + 1, loop)

ConfigItems(gen_info) ==
  FieldItems(ConfigFields(gen_info), 1, "context")
  \o FieldItems(ConfigFields(gen_info), 1, "quant")
  \o FieldItems(ConfigFields(gen_info), 1, "cpu")

prompt_tokens(stats) == Get(stats, "promptTokensCount", 0)
predicted_tokens(stats) == Get(stats, "predictedTokensCount", 0)
total_tokens(stats) == Get(stats, "totalTokensCount", 0)

\* RatioGuard as it would be if only the numerator were tested
RatioGuard_numeratorOnly(stats) == predicted_tokens(stats) > 0

\* if predicted_tokens > 0 and prompt_tokens > 0
RatioGuard(stats) == predicted_tokens(stats) > 0 /\ prompt_tokens(stats) > 0

\* if total_tokens > 0 (inside the block of the guard above)
EfficiencyGuard(stats) == total_tokens(stats) > 0

\* the denominators of the divisions the step evaluates, in order
Denominators(stats) ==
  IF RatioGuard(stats)
    THEN <<prompt_tokens(stats)>>
         \o (IF EfficiencyGuard(stats) THEN <<total_tokens(stats)>> ELSE << >>)
    ELSE << >>

\* round(scale * num / den) to the nearest integer, ties to even; den > 0
RoundDiv(num, den) ==
  LET q == num \div den
      r == num % den
  IN IF 2 * r > den \/ (2 * r = den /\ q % 2 = 1) THEN q + 1 ELSE q

\* a number of hundredths written with two decimals
Decimal2(h) ==
  <<ToString(h \div 100), ".", ToString((h % 100) \div 10), ToString(h % 10)>>

\* round(predicted_tokens / prompt_tokens, 2)
tokens_per_prompt(stats) ==
  RoundDiv(100 * predicted_tokens(stats), prompt_tokens(stats))

\* round((predicted_tokens / total_tokens) * 100, 2)
efficiency(stats) ==
  RoundDiv(10000 * predicted_tokens(stats), total_tokens(stats))

\* DerivedItems as it would be if the efficiency line were not nested in
\* the block of the ratio guard
DerivedItems_unnested(stats) ==
  (IF RatioGuard(stats) /\ prompt_tokens(stats) # 0
     THEN Item("Tokens/Prompt Token Ratio: ", Decimal2(tokens_per_prompt(stats)))
     ELSE << >>)
  \o (IF EfficiencyGuard(stats) /\ total_tokens(stats) # 0
        THEN Item("Efficiency: ", Decimal2(efficiency(stats)) \o <<"%">>)
        ELSE << >>)

\* the derived items; a zero denominator raises ZeroDivisionError and
\* nothing after it is appended
DerivedItems(stats) ==
  IF RatioGuard(stats)
    THEN IF prompt_tokens(stats) = 0 THEN << >>
         ELSE Item("Tokens/Prompt Token Ratio: ", Decimal2(tokens_per_prompt(stats)))
              \o (IF EfficiencyGuard(stats) /\ total_tokens(stats) # 0
                    THEN Item("Efficiency: ", Decimal2(efficiency(stats)) \o <<"%">>)
                    ELSE << >>)
    ELSE << >>

StatItems(gen_info, stats) ==
  BasicItems(stats) \o ModelItems(gen_info) \o ConfigItems(gen_info)
  \o DerivedItems(stats)

RECURSIVE WrapItems(_, _)
WrapItems(items, j) ==
  IF j > Len(items) THEN << >>
  ELSE <<Html.StatItemOpen>> \o items[j] \o <<Html.DivClose>> \o WrapItems(items, j + 1)

\* the step has statistics to show
HasStats(step) ==
  /\ Has(step, "genInfo")
  /\ Truthy(step.genInfo)
  /\ Truthy(Get(step.genInfo, "stats", Empty))

\* what one step adds to stats_html; ok is FALSE when a division by zero
\* is evaluated
StepStats(step) ==
  IF HasStats(step)
    THEN LET stats == step.genInfo.stats
         IN [ok |-> \A j \in 1..Len(Denominators(stats)) : Denominators(stats)[j] # 0,
             divs |-> Denominators(stats),
             out |-> <<Html.StatsOpen, Html.StatsTitle>>
                     \o WrapItems(StatItems(step.genInfo, stats), 1)
                     \o <<Html.DivClose>>]
    ELSE [ok |-> TRUE, divs |-> << >>, out |-> << >>]

RECURSIVE StatsHtml(_, _)
StatsHtml(steps, j) ==
  IF j > Len(steps) THEN [ok |-> TRUE, out |-> << >>]
  ELSE LET r == StepStats(steps[j])
           rest == StatsHtml(steps, j + 1)
       IN IF r.ok THEN [ok |-> rest.ok, out |-> r.out \o rest.out]
          ELSE [ok |-> FALSE, out |-> << >>]

(***************************************************************************)
(* Tool calls of a version.                                                *)
(***************************************************************************)
\* ToolCallRow as it would be if a call without arguments were left out
ToolCallRow_skipEmpty(tool_call) ==
  IF Truthy(Get(Get(tool_call, "function", Empty), "arguments", Empty))
    THEN <<Html.ToolItemOpen, Html.ToolNameOpen>>
         \o Get(Get(tool_call, "function", Empty), "name", Str.Unknown)
         \o <<Html.SpanClose, ":", " ">>
         \o StrDict(Get(Get(tool_call, "function", Empty), "arguments", Empty))
         \o <<Html.DivClose>>
    ELSE << >>

ToolCallRow(tool_call) ==
  <<Html.ToolItemOpen, Html.ToolNameOpen>>
  \o Get(Get(tool_call, "function", Empty), "name", Str.Unknown)
  \o <<Html.SpanClose, ":", " ">>
  \o StrDict(Get(Get(tool_call, "function", Empty), "arguments", Empty))
  \o <<Html.DivClose>>

RECURSIVE ToolCallRows(_, _)
ToolCallRows(calls, j) ==
  IF j > Len(calls) THEN << >>
  ELSE ToolCallRow(calls[j]) \o ToolCallRows(calls, j + 1)

\* 'tool_calls' in version and version['tool_calls']
HasToolCalls(version) == Has(version, "tool_calls") /\ Truthy(version.tool_calls)

ToolCallsHtml(version) ==
  IF HasToolCalls(version)
    THEN <<Html.ToolsOpen, Html.ToolItemOpen, Html.ToolsTitle, Html.DivClose>>
         \o ToolCallRows(version.tool_calls, 1) \o <<Html.DivClose>>
    ELSE << >>

(***************************************************************************)
(* Thinking blocks, duration badges and response blocks.                   *)
(***************************************************************************)
\* IsThinking as it would be if only the title of the style were searched
IsThinking_titleOnly(step) ==
  Contains(Lower(Get(Get(step, "style", Empty), "title", << >>)), Str.thinking)

\* 'thinking' in str(step.get('style', {})).lower()
IsThinking(step) == Contains(Lower(StrDict(Get(step, "style", Empty))), Str.thinking)

ThinkingBlock(text) == <<Html.ThinkOpen, Html.ThinkTitle>> \o format_content(text) \o <<Html.DivClose>>

ResponseBlock(text) == <<Html.RespOpen, Html.RespTitle>> \o format_content(text) \o <<Html.DivClose>>

\* the blocks the parts of one step give in the thinking loop (thinking =
\* TRUE) or in the response loop (thinking = FALSE)
RECURSIVE PartBlocks(_, _, _, _)
PartBlocks(step, parts, j, thinking) ==
  IF j > Len(parts) THEN [ok |-> TRUE, out |-> << >>]
  ELSE IF Get(parts[j], "type", None) = "text" /\ (IsThinking(step) <=> thinking)
    THEN IF Has(parts[j], "text")
           THEN LET rest == PartBlocks(step, parts, j + 1, thinking)
                IN [ok |-> rest.ok,
                    out |-> (IF thinking THEN ThinkingBlock(parts[j].text)
                                         ELSE ResponseBlock(parts[j].text))
                            \o rest.out]
           ELSE [ok |-> FALSE, out |-> << >>]
    ELSE PartBlocks(step, parts, j + 1, thinking)

StepBlocks(step, thinking) ==
  IF Get(step, "type", None) = "contentBlock"
    THEN PartBlocks(step, Get(step, "content", << >>), 1, thinking)
    ELSE [ok |-> TRUE, out |-> << >>]

RECURSIVE ContentBlocks(_, _, _)
ContentBlocks(steps, j, thinking) ==
  IF j > Len(steps) THEN [ok |-> TRUE, out |-> << >>]
  ELSE LET r == StepBlocks(steps[j], thinking)
           rest == ContentBlocks(steps, j + 1, thinking)
       IN IF r.ok THEN [ok |-> rest.ok, out |-> r.out \o rest.out]
          ELSE [ok |-> FALSE, out |-> << >>]

\* the step carries a "Thought for ... seconds" title
HasDuration(step) ==
  /\ Has(step, "style")
  /\ Truthy(step.style)
  /\ Has(step.style, "title")
  /\ Contains(step.style.title, Str.ThoughtFor)
  /\ Contains(step.style.title, Str.seconds)

RECURSIVE DurationBadges(_, _)
DurationBadges(steps, j) ==
  IF j > Len(steps) THEN << >>
  ELSE (IF HasDuration(steps[j])
          THEN <<Html.DurOpen>> \o steps[j].style.title \o <<Html.DivClose>> ELSE << >>)
       \o DurationBadges(steps, j + 1)

\* Assemble as it would be if the statistics were appended first
Assemble_statsFirst(resp, stats, tools) == stats \o resp \o tools

\* content_html += response_content; then stats_html, then tool_calls_html
Assemble(resp, stats, tools) == resp \o stats \o tools

\* everything the assistant branch appends for a version
AssistantHtml(version) ==
  LET st == StatsHtml(version.steps, 1)
      th == ContentBlocks(version.steps, 1, TRUE)
      rs == ContentBlocks(version.steps, 1, FALSE)
  IN [ok |-> st.ok /\ th.ok /\ rs.ok,
      out |-> th.out \o DurationBadges(version.steps, 1)
              \o Assemble(rs.out, st.out, ToolCallsHtml(version))]

\* what one version appends to content_html (lines 37-219)
VersionHtml(version) ==
  IF ~MessageContent(version).ok THEN [ok |-> FALSE, out |-> << >>]
  ELSE IF HasSteps(version)
    THEN [ok |-> AssistantHtml(version).ok,
          out |-> MessageHead(version) \o AssistantHtml(version).out \o <<Html.MsgClose>>]
    ELSE [ok |-> TRUE, out |-> MessageHead(version) \o <<Html.MsgClose>>]

RECURSIVE VersionsHtml(_, _)
VersionsHtml(vs, j) ==
  IF j > Len(vs) THEN [ok |-> TRUE, out |-> << >>]
  ELSE LET r == VersionHtml(vs[j])
           rest == VersionsHtml(vs, j + 1)
       IN [ok |-> r.ok /\ rest.ok, out |-> r.out \o rest.out]

\* MessageHtml as it would be if every version of an entry were rendered
MessageHtml_allVersions(msg) ==
  IF HasVersion(msg) THEN VersionsHtml(msg.versions, 1)
  ELSE [ok |-> TRUE, out |-> << >>]

\* what one entry of messages appends to content_html: only versions[0] is
\* looked at (lines 36-37)
MessageHtml(msg) ==
  IF HasVersion(msg) THEN VersionHtml(msg.versions[1])
  ELSE [ok |-> TRUE, out |-> << >>]

(***************************************************************************)
(* The documents of the model.                                             *)
(***************************************************************************)
\* message texts
Text ==
  [ hi |-> <<"h", "i">>,
    a |-> <<"a">>,
    list |-> <<"-", " ", "a", NL, "c">> ]

TextPart(t) == [type |-> "text", text |-> t]

\* sequences of at most n elements of S
SeqsUpTo(S, n) == UNION { [1..m -> S] : m \in 0..n }

\* style mappings: the title and the type of a step's style
Title ==
  [ Thinking |-> <<"T", "h", "i", "n", "k", "i", "n", "g">>,
    Thought |-> <<"T", "h", "o", "u", "g", "h", "t", " ", "f", "o", "r", " ",
        "3", " ", "s", "e", "c", "o", "n", "d", "s">>,
    Answer |-> <<"A", "n", "s", "w", "e", "r">> ]

Styles ==
  { [title |-> Title.Thinking],
    [title |-> Title.Thought],
    [title |-> Title.Answer],
    [type |-> Str.thinking],
    [type |-> Str.thinking, title |-> Title.Thought] }

ContentSteps ==
  { [type |-> "contentBlock", content |-> <<TextPart(Text.a)>>] }
  \cup { [type |-> "contentBlock", content |-> <<TextPart(Text.a)>>, style |-> st] :
           st \in Styles }
  \cup { [type |-> "contentBlock"],
         [content |-> <<TextPart(Text.a)>>],
         [type |-> "contentBlock", content |-> <<[type |-> "text"], [text |-> Text.a]>>] }

TokenStats ==
  { [promptTokensCount |-> p, predictedTokensCount |-> pr, totalTokensCount |-> to] :
      p \in {0, 2}, pr \in {0, 1}, to \in {0, 4} }

FullGenInfo ==
  [stats |-> [stopReason |-> "eosFound", tokensPerSecond |-> 9,
              timeToFirstTokenSec |-> 1, totalTimeSec |-> 3,
              promptTokensCount |-> 3, predictedTokensCount |-> 1,
              totalTokensCount |-> 4],
   indexedModelIdentifier |-> <<"o", "/", "m">>,
   loadModelConfig |->
     [fields |-> << [key |-> ConfigKey.ctx, value |-> 4096],
                    [key |-> ConfigKey.kquant, value |-> [value |-> "f16"]],
                    [key |-> ConfigKey.vquant],
                    [key |-> ConfigKey.cpu, value |-> 8],
                    [value |-> 1] >>]]

GenInfos ==
  { [stats |-> st] : st \in TokenStats }
  \cup { FullGenInfo, Empty, [stats |-> [predictedTokensCount |-> 1]] }

StatSteps ==
  { [type |-> "debugInfoBlock", genInfo |-> g] : g \in GenInfos }
  \cup { [type |-> "contentBlock", content |-> <<TextPart(Text.a)>>,
          genInfo |-> FullGenInfo] }

WalkSteps == ContentSteps \cup StatSteps

ToolCalls ==
  { << [function |-> [name |-> <<"f">>, arguments |-> Empty]] >>,
    << [function |-> [name |-> <<"g">>, arguments |-> [q |-> <<"x">>]]],
       [function |-> [arguments |-> Empty]], Empty >> }

ToolChoices == { Empty } \cup { [tool_calls |-> tc] : tc \in ToolCalls }

Contents ==
  { << >>, <<TextPart(Text.hi)>>, <<TextPart(Text.a), TextPart(Text.list)>>,
    <<TextPart(Text.hi), TextPart(Text.a)>>,
    <<TextPart(Text.a), [type |-> "image", text |-> Text.hi]>>,
    <<[type |-> "text"]>>, <<[text |-> Text.hi], Empty>> }

ContentChoices == { Empty } \cup { [content |-> c] : c \in Contents }

RoleChoices == { Empty, [role |-> Str.user], [role |-> Str.assistant] }

TimeChoices ==
  { Empty, [preprocessed |-> Empty], [preprocessed |-> [timestamp |-> 61500]] }

\* versions that differ in everything but the steps
HeadVersions ==
  { r @@ t @@ c @@ tc @@ st :
      r \in RoleChoices, t \in TimeChoices, c \in ContentChoices,
      tc \in { Empty, [tool_calls |-> << >>],
               [tool_calls |-> << [function |-> [name |-> <<"f">>, arguments |-> Empty]] >>] },
      st \in { Empty, [steps |-> << >>] } }

\* assistant versions that differ in the steps and the tool calls
StepVersions ==
  { [role |-> Str.assistant, content |-> <<TextPart(Text.hi)>>, steps |-> sq] @@ tc :
      sq \in SeqsUpTo(WalkSteps, MaxSteps), tc \in ToolChoices }

WalkMessages ==
  { Empty, [versions |-> << >>] }
  \cup { [versions |-> <<v>>] : v \in HeadVersions \cup StepVersions }

\* the messages of whole documents
DocMessages ==
  { Empty,
    [versions |-> << >>],
    [versions |-> << [role |-> Str.user, content |-> <<TextPart(Text.hi)>>],
                     [role |-> Str.user, content |-> <<TextPart(Text.a)>>] >>],
    [versions |-> << [content |-> << >>] >>],
    [versions |-> << [role |-> Str.assistant, content |-> <<TextPart(Text.list)>>,
                      tool_calls |-> << [function |-> [name |-> <<"f">>, arguments |-> Empty]] >>] >>],
    [versions |-> << [role |-> Str.assistant, content |-> <<TextPart(Text.hi)>>,
                      steps |-> << [type |-> "contentBlock",
                                    content |-> <<TextPart(Text.a)>>,
                                    style |-> [type |-> Str.thinking, title |-> Title.Thought]],
                                   [type |-> "contentBlock", content |-> <<TextPart(Text.hi)>>],
                                   [type |-> "debugInfoBlock", genInfo |-> FullGenInfo] >>,
                      tool_calls |-> << [function |-> [name |-> <<"f">>, arguments |-> Empty]] >>] >>],
    [versions |-> << [role |-> Str.user, content |-> <<[type |-> "text"]>>] >>] }

SystemPrompts == { << >>, Text.hi, <<"a", "\\", "n", "b">> }

Docs ==
  { b @@ sp @@ ms :
      b \in { Empty, [name |-> "chat", createdAt |-> 61500, tokenCount |-> 7] },
      sp \in { Empty } \cup { [systemPrompt |-> t] : t \in SystemPrompts },
      ms \in { Empty } \cup { [messages |-> q] : q \in SeqsUpTo(DocMessages, MaxMsgs) } }

\* data.get('messages', [])
Messages(d) == Get(d, "messages", << >>)

\* the page: header with name, creation time and token count, the chat
\* container with content_html, the footer and the script
Template(d, body) ==
  <<"<!DOCTYPE html>", "<span>Conversation: ", Get(d, "name", "Unknown Conversation"),
    Html.SpanClose, "<span>Created: ">>
  \o (IF Has(d, "createdAt") /\ d.createdAt # 0
        THEN FormatTimestamp(d.createdAt) ELSE <<"Unknown">>)
  \o <<Html.SpanClose, "<span>Total Tokens: ", ToString(Get(d, "tokenCount", 0)), Html.SpanClose,
       Html.ChatOpen>>
  \o body \o <<Html.DivClose, "</html>">>

(***************************************************************************)
(* Inputs of the formatter: up to MaxLines lines of FmtLines joined by     *)
(* newlines.                                                               *)
(***************************************************************************)
FmtLines ==
  { <<"-", " ", "a">>,
    <<"*", " ", "a">>,
    <<"c">>,
    << >>,
    <<"-", " ">>,
    <<"*", " ", "a", "*">>,
    <<BT, BT, BT, "a">>,
    <<"b", BT, BT, BT>>,
    <<"#", " ", "a">>,
    <<">", " ", "a">>,
    <<" ", "-", " ", "a">>,
    <<"_", "a", "_">> }

FmtInputs ==
  { << >> } \cup
  UNION { { Join(ls) : ls \in [1..n -> FmtLines] } : n \in 1..MaxLines }

\* format_content: the argument, the text being rewritten, its lines, the
\* index and the flag of the line scan, the position in the function
VARIABLE content
VARIABLE formatted
VARIABLE lines
VARIABLE i
VARIABLE in_list
VARIABLE fpc

\* convert_conversation_to_html: the position, the parsed document, the index
\* of the message loop, the content and the page built so far, the state of
\* the output path, how often it was opened for writing, the exception raised
VARIABLE pc
VARIABLE data
VARIABLE msg_i
VARIABLE content_html
VARIABLE html_content
VARIABLE out_file
VARIABLE out_opens
VARIABLE err

\* the processing of one message: the entry, the index of the statistics
\* loop, the three strings collected for an assistant message, the
\* denominators of the divisions of the last statistics iteration, the position
VARIABLE message
VARIABLE step_i
VARIABLE stats_html
VARIABLE tool_calls_html
VARIABLE response_content
VARIABLE divisions
VARIABLE wpc

fvars == <<content, formatted, lines, i, in_list, fpc>>
cvars == <<pc, data, msg_i, html_content, out_file, out_opens>>
wvars == <<message, step_i, stats_html, tool_calls_html, response_content,
           divisions, wpc>>
vars == <<fvars, cvars, wvars, content_html, err>>

\* the formatter is not running
FmtIdle ==
  /\ content = << >>
  /\ formatted = << >>
  /\ lines = << >>
  /\ i = 1
  /\ in_list = FALSE
  /\ fpc = "idle"

\* no conversion is running
ConvIdle ==
  /\ pc = "idle"
  /\ data = Empty
  /\ msg_i = 1
  /\ html_content = << >>
  /\ out_file = "untouched"
  /\ out_opens = 0

\* no message is being walked step by step
WalkIdle ==
  /\ message = Empty
  /\ step_i = 1
  /\ stats_html = << >>
  /\ tool_calls_html = << >>
  /\ response_content = << >>
  /\ divisions = << >>
  /\ wpc = "idle"

(***************************************************************************)
(* format_content, one action per stage and per iteration of the scan.     *)
(***************************************************************************)
FmtInit ==
  /\ content \in FmtInputs
  /\ formatted = << >>
  /\ lines = << >>
  /\ i = 1
  /\ in_list = FALSE
  /\ fpc = "start"
  /\ ConvIdle
  /\ WalkIdle
  /\ content_html = << >>
  /\ err = "none"

\* if not content: return ""
ReturnEmpty ==
  /\ fpc = "start"
  /\ content = << >>
  /\ fpc' = "done"
  /\ formatted' = << >>
  /\ UNCHANGED <<content, lines, i, in_list, cvars, wvars, content_html, err>>

\* the substitutions, then lines = formatted.split('\n'); in_list = False
Substitute ==
  /\ fpc = "start"
  /\ content # << >>
  /\ formatted' = Inline(content)
  /\ lines' = Split(Inline(content), 1)
  /\ in_list' = FALSE
  /\ i' = 1
  /\ fpc' = "scan"
  /\ UNCHANGED <<content, cvars, wvars, content_html, err>>

\* one iteration of  for i, line in enumerate(lines)
ScanStep ==
  /\ fpc = "scan"
  /\ i <= Len(lines)
  /\ LET r == ScanLine(lines, i, in_list)
     IN /\ lines' = r.ls
        /\ in_list' = r.fl
  /\ i' = i + 1
  /\ UNCHANGED <<content, formatted, fpc, cvars, wvars, content_html, err>>

\* the loop is over: join, blockquotes, line breaks, paragraph wrap, return
FinishFormat ==
  /\ fpc = "scan"
  /\ i > Len(lines)
  /\ formatted' = Finish(lines)
  /\ fpc' = "done"
  /\ UNCHANGED <<content, lines, i, in_list, cvars, wvars, content_html, err>>

FmtNext == ReturnEmpty \/ Substitute \/ ScanStep \/ FinishFormat

SpecFmt == FmtInit /\ [][FmtNext]_vars

(***************************************************************************)
(* Properties of format_content (checked under SpecFmt).                   *)
(***************************************************************************)
\* the lines of the input text
InputLines == Split(content, 1)

Positions(s, t) == { j \in 1..Len(s) : s[j] = t }

Max(S) == CHOOSE x \in S : \A y \in S : y <= x

\* the input is k >= 1 lines that start with "- " or "* " and then one line
\* that is not blank and not a list line
ListThenLine(ls) ==
  /\ Len(ls) >= 2
  /\ \A j \in 1..(Len(ls) - 1) : HasMarker(ls[j])
  /\ Strip(ls[Len(ls)]) # << >>
  /\ ~IsListLine(ls[Len(ls)])
  /\ ~HasMarker(ls[Len(ls)])

\* out holds one <ul>, then k items, then one </ul> right after the last
\* </li> and right before a paragraph that is not empty
OneListOf(out, k) ==
  /\ Count(out, "<ul>") = 1
  /\ Count(out, "</ul>") = 1
  /\ Count(out, "<li>") = k
  /\ Count(out, "</li>") = k
  /\ LET u == Min(Positions(out, "<ul>"))
         e == Min(Positions(out, "</ul>"))
     IN /\ \A j \in Positions(out, "<li>") \cup Positions(out, "</li>") : u < j /\ j < e
        /\ e = Max(Positions(out, "</li>")) + 1
        /\ e + 1 < Len(out)
        /\ out[e + 1] = "<p>"

\* the first item has text, and a line that starts with "* " holds no
\* second asterisk
PlainItems(ls) ==
  /\ Strip(DropTwo(ls[1])) # << >>
  /\ \A j \in 1..(Len(ls) - 1) :
       ls[j][1] = "*" => Count(ls[j], "*") = 1

\* C1 as stated: k list lines and then a line c give one <ul> with k <li>
\* entries, closed once, after the last </li> and before the paragraph of c.
C1_AnyItems ==
  (fpc = "done" /\ ListThenLine(InputLines))
    => OneListOf(formatted, Len(InputLines) - 1)

\* C1 as amended: the same for list lines whose first item has text and
\* whose "* " lines hold no second asterisk.
C1_ListThenParagraph ==
  (fpc = "done" /\ ListThenLine(InputLines) /\ PlainItems(InputLines))
    => OneListOf(formatted, Len(InputLines) - 1)

C1_Witness ==
  /\ fpc = "done"
  /\ ListThenLine(InputLines)
  /\ PlainItems(InputLines)
  /\ Len(InputLines) = 3
  /\ OneListOf(formatted, 2)

Fence == <<BT, BT, BT>>


\* the input is a fence, a body with a newline and without a fence, a fence
FencedBlock(s) ==
  /\ Len(s) >= 7
  /\ StartsWithAt(s, 1, Fence)
  /\ StartsWithAt(s, Len(s) - 2, Fence)
  /\ NL \in { s[j] : j \in 4..(Len(s) - 3) }
  /\ ~Contains(SubSeq(s, 4, Len(s) - 3), Fence)

\* C2: a fenced block whose body holds a newline comes out as
\* <pre><code>body</code></pre> with the body unchanged, newline included,
\* and no fence marker is left in the output.
C2_FenceRoundTrip ==
  (fpc = "done" /\ FencedBlock(content))
    => /\ Contains(formatted, <<"<pre>", "<code>">> \o SubSeq(content, 4, Len(content) - 3)
                                \o <<"</code>", "</pre>">>)
       /\ ~Contains(formatted, Fence)

\* number of places where pat occurs in s
Occurrences(s, pat) == Cardinality({ j \in 1..Len(s) : StartsWithAt(s, j, pat) })

\* the lines the scan started from
ScannedLines == Split(Inline(content), 1)

\* the flag in_list before line k of ls is examined
RECURSIVE FlagAt(_, _)
FlagAt(ls, k) ==
  IF k = 1 THEN FALSE ELSE ScanLine(ls, k - 1, FlagAt(ls, k - 1)).fl

\* line k is neither a list line nor blank and is met while in_list is true
ClosesList(ls, k) ==
  /\ FlagAt(ls, k)
  /\ ~IsListLine(ls[k])
  /\ ~HasMarker(ls[k])
  /\ Strip(ls[k]) # << >>

\* s ends with pat
EndsWith(s, pat) == StartsWithAt(s, Len(s) - Len(pat) + 1, pat)

\* C12: a line L that is neither a list line nor blank, scanned while
\* in_list is true, closes the list on the previous line, clears in_list and
\* starts a paragraph with L there; the text of L (when it is in the scanned
\* text once) is in the output of format_content exactly once.
C12_ClosingLineOnce ==
  /\ (fpc = "scan" /\ i > 2 /\ ClosesList(ScannedLines, i - 1))
       => /\ ~in_list
          /\ EndsWith(lines[i - 2], <<"</li>", "</ul>", "<p>">> \o ScannedLines[i - 1])
  /\ (fpc = "done" /\ content # << >>)
       => \A k \in 1..Len(ScannedLines) :
            (ClosesList(ScannedLines, k)
               /\ Occurrences(Inline(content), ScannedLines[k]) = 1)
              => Occurrences(formatted, ScannedLines[k]) = 1

\* ln has the form of a rewritten list line: <li>...</li>, after <ul> for
\* the first item of a list
IsItem(ln) ==
  /\ Len(ln) >= 2
  /\ ln[Len(ln)] = "</li>"
  /\ \/ ln[1] = "<li>"
     \/ Len(ln) >= 3 /\ ln[1] = "<ul>" /\ ln[2] = "<li>"

\* the lists opened and not closed in the lines
OpenLists(ls) == Count(Join(ls), "<ul>") - Count(Join(ls), "</ul>")

\* between two iterations: in_list is true exactly when the line before
\* line i exists and was rewritten as a list item, and then one list is
\* open, otherwise none
ScanInvariant ==
  fpc = "scan" =>
    /\ in_list <=> (/\ i > 1
                    /\ IsItem(lines[i - 1])
                    /\ lines[i - 1] # ScannedLines[i - 1])
    /\ OpenLists(lines) = (IF in_list THEN 1 ELSE 0)
    /\ \A k \in i..Len(lines) : lines[k] = ScannedLines[k]

\* one iteration: the line examined is left alone or becomes a list item,
\* with <ul> only when in_list was false; the only other line written is
\* the line before, which exists and ends with </li>, and what is appended
\* to it starts with </ul>
ScanWrites ==
  (fpc = "scan" /\ i' = i + 1) =>
    /\ Len(lines') = Len(lines)
    /\ \A k \in 1..Len(lines) :
         lines'[k] # lines[k] =>
           \/ /\ k = i
              /\ IsItem(lines'[k])
              /\ lines'[k][1] = "<ul>" => ~in_list
           \/ /\ k = i - 1
              /\ i >= 2
              /\ in_list
              /\ lines[k][Len(lines[k])] = "</li>"
              /\ StartsWithAt(lines'[k], 1, lines[k] \o <<"</ul>">>)
              /\ Count(lines'[k], "</ul>") = Count(lines[k], "</ul>") + 1

\* C14: at every step of the line scan, in_list is true before line i is
\* examined exactly when line i-1 exists and was rewritten as a list item;
\* every write to the line before has a line before, </ul> is only appended
\* right after </li>, and <ul> is never opened while a list is open.
C14_ListScanInvariant == []ScanInvariant /\ [][ScanWrites]_vars

\* a list of two items was opened once and has just been closed on the
\* second item by the line after it
C14_Witness ==
  /\ fpc = "scan"
  /\ i = 4
  /\ ~in_list
  /\ IsItem(lines[1])
  /\ lines[1][1] = "<ul>"
  /\ Contains(lines[2], <<"</li>", "</ul>", "<p>">>)
  /\ lines[2][1] = "<li>"
  /\ lines[3] = ScannedLines[3]
  /\ OpenLists(lines) = 0

\* C15: the output of format_content holds as many </ul> as <ul> (the
\* inputs hold neither): every list the scan opened is closed when
\* format_content returns, also a list whose last item is the last line.
C15_ListsClosed ==
  fpc = "done" => Count(formatted, "</ul>") = Count(formatted, "<ul>")

(***************************************************************************)
(* The processing of one entry of messages (lines 36-219), one action per  *)
(* loop of the assistant branch and per iteration of the statistics loop.  *)
(***************************************************************************)
WalkInit ==
  /\ message \in WalkMessages
  /\ step_i = 1
  /\ stats_html = << >>
  /\ tool_calls_html = << >>
  /\ response_content = << >>
  /\ divisions = << >>
  /\ wpc = "head"
  /\ content_html = << >>
  /\ err = "none"
  /\ FmtIdle
  /\ ConvIdle

\* versions[0] of the message being processed
Version == message.versions[1]

\* the entry has no versions: nothing is emitted for it
SkipMessage ==
  /\ wpc = "head"
  /\ err = "none"
  /\ ~HasVersion(message)
  /\ wpc' = "done"
  /\ UNCHANGED <<message, step_i, stats_html, tool_calls_html, response_content,
                 divisions, content_html, err, fvars, cvars>>

\* role, timestamp, message text, message bubble (lines 37-62)
OpenMessage ==
  /\ wpc = "head"
  /\ err = "none"
  /\ HasVersion(message)
  /\ IF MessageContent(Version).ok
       THEN /\ content_html' = content_html \o MessageHead(Version)
            /\ wpc' = IF HasSteps(Version) THEN "stats" ELSE "close"
            /\ err' = err
       ELSE /\ wpc' = wpc
            /\ err' = "KeyError"
            /\ content_html' = content_html
  /\ stats_html' = << >>
  /\ tool_calls_html' = << >>
  /\ step_i' = 1
  /\ UNCHANGED <<message, response_content, divisions, fvars, cvars>>

\* one iteration of the statistics loop (lines 71-156)
StatsStep ==
  /\ wpc = "stats"
  /\ err = "none"
  /\ step_i <= Len(Version.steps)
  /\ LET r == StepStats(Version.steps[step_i])
     IN /\ divisions' = r.divs
        /\ IF r.ok
             THEN /\ stats_html' = stats_html \o r.out
                  /\ step_i' = step_i + 1
                  /\ UNCHANGED <<wpc, err>>
             ELSE /\ err' = "ZeroDivisionError"
                  /\ UNCHANGED <<stats_html, step_i, wpc>>
  /\ UNCHANGED <<message, tool_calls_html, response_content, content_html,
                 fvars, cvars>>

\* the statistics loop is over; the tool calls (lines 158-166)
CollectToolCalls ==
  /\ wpc = "stats"
  /\ err = "none"
  /\ step_i > Len(Version.steps)
  /\ tool_calls_html' = ToolCallsHtml(Version)
  /\ wpc' = "thinking"
  /\ UNCHANGED <<message, step_i, stats_html, response_content, divisions,
                 content_html, err, fvars, cvars>>

\* the thinking blocks go straight into content_html (lines 168-181)
AddThinking ==
  /\ wpc = "thinking"
  /\ err = "none"
  /\ LET r == ContentBlocks(Version.steps, 1, TRUE)
     IN IF r.ok
          THEN /\ content_html' = content_html \o r.out
               /\ wpc' = "duration"
               /\ err' = err
          ELSE /\ wpc' = wpc
               /\ err' = "KeyError"
               /\ content_html' = content_html
  /\ UNCHANGED <<message, step_i, stats_html, tool_calls_html, response_content,
                 divisions, fvars, cvars>>

\* the duration badges go straight into content_html (lines 183-192)
AddDuration ==
  /\ wpc = "duration"
  /\ err = "none"
  /\ content_html' = content_html \o DurationBadges(Version.steps, 1)
  /\ wpc' = "response"
  /\ UNCHANGED <<message, step_i, stats_html, tool_calls_html, response_content,
                 divisions, err, fvars, cvars>>

\* the response blocks are collected in response_content (lines 194-207)
CollectResponse ==
  /\ wpc = "response"
  /\ err = "none"
  /\ LET r == ContentBlocks(Version.steps, 1, FALSE)
     IN IF r.ok
          THEN /\ response_content' = r.out
               /\ wpc' = "assemble"
               /\ err' = err
          ELSE /\ wpc' = wpc
               /\ err' = "KeyError"
               /\ response_content' = response_content
  /\ UNCHANGED <<message, step_i, stats_html, tool_calls_html, divisions,
                 content_html, fvars, cvars>>

\* response, then statistics, then tool calls (lines 209-217)
AssembleMessage ==
  /\ wpc = "assemble"
  /\ err = "none"
  /\ content_html' = content_html \o Assemble(response_content, stats_html, tool_calls_html)
  /\ wpc' = "close"
  /\ UNCHANGED <<message, step_i, stats_html, tool_calls_html, response_content,
                 divisions, err, fvars, cvars>>

\* content_html += "</div></div>" (line 219)
CloseMessage ==
  /\ wpc = "close"
  /\ err = "none"
  /\ content_html' = content_html \o <<Html.MsgClose>>
  /\ wpc' = "done"
  /\ UNCHANGED <<message, step_i, stats_html, tool_calls_html, response_content,
                 divisions, err, fvars, cvars>>

WalkNext ==
  \/ SkipMessage
  \/ OpenMessage
  \/ StatsStep
  \/ CollectToolCalls
  \/ AddThinking
  \/ AddDuration
  \/ CollectResponse
  \/ AssembleMessage
  \/ CloseMessage

SpecWalk == WalkInit /\ [][WalkNext]_vars

(***************************************************************************)
(* Properties of the processing of one message (checked under SpecWalk).   *)
(***************************************************************************)
\* the message was processed to its end and had a version
Walked == wpc = "done" /\ HasVersion(message)

Before(A, B) == \A a \in A, b \in B : a < b

\* C4: in the output of an assistant message every thinking block and
\* duration badge comes before every response block, every response block
\* before every statistics section, every statistics section before the
\* tool calls, whatever the order of the steps.
C4_AssemblyOrder ==
  Walked =>
    LET T == Positions(content_html, Html.ThinkOpen) \cup Positions(content_html, Html.DurOpen)
        R == Positions(content_html, Html.RespOpen)
        S == Positions(content_html, Html.StatsOpen)
        C == Positions(content_html, Html.ToolsOpen)
    IN /\ Before(T, R) /\ Before(T, S) /\ Before(T, C)
       /\ Before(R, S) /\ Before(R, C)
       /\ Before(S, C)

\* the steps list the statistics first and the thinking block last, and the
\* output holds all five kinds of block
C4_Witness ==
  /\ Walked
  /\ HasSteps(Version)
  /\ Len(Version.steps) = 2
  /\ HasStats(Version.steps[1])
  /\ IsThinking(Version.steps[2])
  /\ Count(content_html, Html.ThinkOpen) = 1
  /\ Count(content_html, Html.DurOpen) = 1
  /\ Count(content_html, Html.RespOpen) = 1
  /\ Count(content_html, Html.StatsOpen) = 1
  /\ Count(content_html, Html.ToolsOpen) = 1

\* the tool calls of a version whose arguments are the empty mapping
EmptyArgCalls(version) ==
  { j \in 1..Len(Get(version, "tool_calls", << >>)) :
      /\ Has(version.tool_calls[j], "function")
      /\ Has(version.tool_calls[j].function, "arguments")
      /\ version.tool_calls[j].function.arguments = Empty }

\* the row of a call with empty arguments: its name, then {}
EmptyArgRow(call) ==
  <<Html.ToolItemOpen, Html.ToolNameOpen>> \o Get(call.function, "name", Str.Unknown)
  \o <<Html.SpanClose, ":", " ", "{", "}", Html.DivClose>>

\* C5 as stated: every assistant version with a tool call whose arguments
\* are empty gets a tool-call-item row with the name and {}.
C5_AnyAssistant ==
  (Walked /\ Role(Version) = Str.assistant) =>
    \A j \in EmptyArgCalls(Version) :
      Contains(content_html, EmptyArgRow(Version.tool_calls[j]))

\* C5 as amended: the same for assistant versions that have a steps list.
C5_EmptyArguments ==
  (Walked /\ HasSteps(Version)) =>
    \A j \in EmptyArgCalls(Version) :
      Contains(content_html, EmptyArgRow(Version.tool_calls[j]))

C5_Witness ==
  /\ Walked
  /\ HasSteps(Version)
  /\ EmptyArgCalls(Version) # {}
  /\ \E j \in EmptyArgCalls(Version) : ~Has(Version.tool_calls[j].function, "name")
  /\ Count(content_html, Html.ToolsOpen) = 1

\* the step has a statistics block whose promptTokensCount is 0
ZeroPrompt(step) ==
  /\ HasStats(step)
  /\ Has(step.genInfo.stats, "promptTokensCount")
  /\ step.genInfo.stats.promptTokensCount = 0

\* the part of s from the last token t on
LastFrom(s, t) == SubSeq(s, Max(Positions(s, t)), Len(s))

\* C6: a statistics block whose promptTokensCount is 0 gets neither the
\* ratio line nor the efficiency line and no division is evaluated for it;
\* no division by zero is ever evaluated.
C6_ZeroPromptGuard ==
  /\ \A j \in 1..Len(divisions) : divisions[j] # 0
  /\ (wpc = "stats" /\ err = "none" /\ step_i > 1 /\ ZeroPrompt(Version.steps[step_i - 1]))
       => /\ divisions = << >>
          /\ Count(LastFrom(stats_html, Html.StatsOpen), "Tokens/Prompt Token Ratio: ") = 0
          /\ Count(LastFrom(stats_html, Html.StatsOpen), "Efficiency: ") = 0

C6_Witness ==
  /\ wpc = "stats"
  /\ err = "none"
  /\ step_i > 1
  /\ ZeroPrompt(Version.steps[step_i - 1])
  /\ Version.steps[step_i - 1].genInfo.stats.predictedTokensCount > 0
  /\ Version.steps[step_i - 1].genInfo.stats.totalTokensCount > 0
  /\ Count(LastFrom(stats_html, Html.StatsOpen), "Predicted Tokens: ") = 1

\* the statistics block of the step the statistics loop has just processed
LastStats == Version.steps[step_i - 1].genInfo.stats

\* the statistics loop has just appended the block of a step
StatsEmitted ==
  /\ wpc = "stats"
  /\ err = "none"
  /\ step_i > 1
  /\ HasStats(Version.steps[step_i - 1])

\* the number of lines with this label in the block just appended
LinesOf(label) == Count(LastFrom(stats_html, Html.StatsOpen), label)

\* C11 as stated: the ratio line is emitted when promptTokensCount is not
\* zero, and the efficiency line when totalTokensCount is not zero.
C11_NonZeroDenominators ==
  StatsEmitted =>
    /\ prompt_tokens(LastStats) # 0 => LinesOf("Tokens/Prompt Token Ratio: ") = 1
    /\ total_tokens(LastStats) # 0 => LinesOf("Efficiency: ") = 1

\* C11 as amended: the ratio line is emitted exactly when the predicted and
\* the prompt count are both positive, the efficiency line exactly when the
\* total count is positive as well; each at most once, with the quotient.
C11_PositiveCounts ==
  StatsEmitted =>
    LET ratio == predicted_tokens(LastStats) > 0 /\ prompt_tokens(LastStats) > 0
        eff == ratio /\ total_tokens(LastStats) > 0
    IN /\ LinesOf("Tokens/Prompt Token Ratio: ") = (IF ratio THEN 1 ELSE 0)
       /\ LinesOf("Efficiency: ") = (IF eff THEN 1 ELSE 0)
       /\ ratio => Contains(LastFrom(stats_html, Html.StatsOpen),
                            <<"Tokens/Prompt Token Ratio: ">>
                            \o Decimal2(tokens_per_prompt(LastStats)))
       /\ eff => Contains(LastFrom(stats_html, Html.StatsOpen),
                          <<"Efficiency: ">> \o Decimal2(efficiency(LastStats)) \o <<"%">>)

\* 1 predicted of 2 prompt and 4 total tokens: ratio 0.50, efficiency 25.00%
C11_Witness ==
  /\ StatsEmitted
  /\ prompt_tokens(LastStats) = 2
  /\ predicted_tokens(LastStats) = 1
  /\ total_tokens(LastStats) = 4
  /\ Contains(stats_html, <<"Tokens/Prompt Token Ratio: ", "0", ".", "5", "0">>)
  /\ Contains(stats_html, <<"Efficiency: ", "25", ".", "0", "0", "%">>)

\* the content parts of the version, and those whose type is "text"
Parts == Get(Version, "content", << >>)

TextIdx == { j \in 1..Len(Parts) : Has(Parts[j], "type") /\ Parts[j].type = "text" }

\* the text of the last part whose type is "text", empty when there is none
SelectedText == IF TextIdx = {} THEN << >> ELSE Parts[Max(TextIdx)].text

\* the message bubble has been emitted
HeadEmitted == wpc # "head" /\ HasVersion(message)

\* the top-level message body: what stands between the <div> after the
\* message header and the next </div>
BodyStart == FindFrom(content_html, 1, <<Html.DivClose, Html.DivOpen>>) + 2

MessageBody ==
  SubSeq(content_html, BodyStart,
         FindFrom(content_html, BodyStart, <<Html.DivClose>>) - 1)

Chars(s) == { s[j] : j \in 1..Len(s) }

\* C13: the top-level message body is format_content of the text of the last
\* part whose type is "text", and of the empty string when there is no such
\* part; the text of an earlier text part or of a part of another type is
\* not in the body.
C13_LastTextPartWins ==
  HeadEmitted =>
    /\ MessageBody = format_content(SelectedText)
    /\ TextIdx = {} => MessageBody = << >>
    /\ \A j \in 1..Len(Parts) :
         (/\ Has(Parts[j], "text")
          /\ (TextIdx = {} \/ j # Max(TextIdx))
          /\ Chars(Parts[j].text) \cap Chars(SelectedText) = {})
           => Chars(Parts[j].text) \cap Chars(MessageBody) = {}

\* two text parts with different texts: the body is the second text alone
C13_Witness ==
  /\ HeadEmitted
  /\ Len(Parts) = 2
  /\ TextIdx = {1, 2}
  /\ Chars(Parts[1].text) \cap Chars(Parts[2].text) = {}
  /\ MessageBody = <<"<p>">> \o Parts[2].text \o <<"</p>">>

\* the text parts of a contentBlock step
TextParts(step) ==
  IF Get(step, "type", None) = "contentBlock"
    THEN { j \in 1..Len(Get(step, "content", << >>)) :
             Get(step.content[j], "type", None) = "text" }
    ELSE {}

\* the title of the step's style contains "thinking", in any case
TitleHasThinking(step) ==
  /\ Has(step, "style")
  /\ Has(step.style, "title")
  /\ Contains(Lower(step.style.title), Str.thinking)

\* some key or some value of the step's style contains "thinking"
StyleHasThinking(step) ==
  /\ Has(step, "style")
  /\ \E k \in DOMAIN step.style :
       \/ Contains(Lower(step.style[k]), Str.thinking)
       \/ Contains(Lower(KeyChars[k]), Str.thinking)

RECURSIVE SumOver(_, _, _)
SumOver(steps, j, weight) ==
  IF j > Len(steps) THEN 0 ELSE weight[j] + SumOver(steps, j + 1, weight)

\* C10 as stated: a text part of a contentBlock step is a thinking block
\* when the style title contains "thinking" and a response block otherwise.
C10_ByTitle ==
  (Walked /\ HasSteps(Version)) =>
    LET sq == Version.steps
        th == [j \in 1..Len(sq) |->
                 IF TitleHasThinking(sq[j]) THEN Cardinality(TextParts(sq[j])) ELSE 0]
        rs == [j \in 1..Len(sq) |->
                 IF TitleHasThinking(sq[j]) THEN 0 ELSE Cardinality(TextParts(sq[j]))]
    IN /\ Count(content_html, Html.ThinkOpen) = SumOver(sq, 1, th)
       /\ Count(content_html, Html.RespOpen) = SumOver(sq, 1, rs)

\* C10 as amended: a text part of a contentBlock step is a thinking block
\* when some key or value of the step's style (its type as well as its
\* title) contains "thinking", in any case, and a response block otherwise.
C10_ByStyle ==
  (Walked /\ HasSteps(Version)) =>
    LET sq == Version.steps
        th == [j \in 1..Len(sq) |->
                 IF StyleHasThinking(sq[j]) THEN Cardinality(TextParts(sq[j])) ELSE 0]
        rs == [j \in 1..Len(sq) |->
                 IF StyleHasThinking(sq[j]) THEN 0 ELSE Cardinality(TextParts(sq[j]))]
    IN /\ Count(content_html, Html.ThinkOpen) = SumOver(sq, 1, th)
       /\ Count(content_html, Html.RespOpen) = SumOver(sq, 1, rs)

\* a step whose style has the type "thinking" and a title without the word,
\* and a step without a style: one block each
C10_Witness ==
  /\ Walked
  /\ HasSteps(Version)
  /\ Len(Version.steps) = 2
  /\ StyleHasThinking(Version.steps[1])
  /\ Has(Version.steps[1].style, "title")
  /\ ~TitleHasThinking(Version.steps[1])
  /\ ~Has(Version.steps[2], "style")
  /\ TextParts(Version.steps[2]) # {}
  /\ Count(content_html, Html.ThinkOpen) = 1
  /\ Count(content_html, Html.RespOpen) = 1

(***************************************************************************)
(* convert_conversation_to_html: read and parse, build content_html one    *)
(* message at a time, build the page, open the output, write it.  An       *)
(* exception is never caught: err names it, pc stays where it was raised   *)
(* and nothing runs after it.                                              *)
(***************************************************************************)
Init ==
  /\ pc = "start"
  /\ data = Empty
  /\ msg_i = 1
  /\ content_html = << >>
  /\ html_content = << >>
  /\ out_file = "untouched"
  /\ out_opens = 0
  /\ err = "none"
  /\ FmtIdle
  /\ WalkIdle

\* LoadInput as it would be if the output file were opened for writing
\* before the document is processed
LoadInput_opensOutput ==
  /\ pc = "start"
  /\ err = "none"
  /\ \E d \in Docs : data' = d
  /\ content_html' = << >>
  /\ pc' = "prompt"
  /\ out_file' = "truncated"
  /\ out_opens' = out_opens + 1
  /\ UNCHANGED <<msg_i, html_content, err, fvars, wvars>>

\* open(input_file) and json.load succeed (lines 14-23)
LoadInput ==
  /\ pc = "start"
  /\ err = "none"
  /\ \E d \in Docs : data' = d
  /\ content_html' = << >>
  /\ pc' = "prompt"
  /\ UNCHANGED <<msg_i, html_content, out_file, out_opens, err, fvars, wvars>>

\* the input cannot be read or is not JSON: the exception ends the call
LoadFails ==
  /\ pc = "start"
  /\ err = "none"
  /\ \E e \in {"OSError", "JSONDecodeError"} : err' = e
  /\ pc' = pc
  /\ UNCHANGED <<data, msg_i, content_html, html_content, out_file, out_opens,
                 fvars, wvars>>

\* the system prompt block (lines 25-32)
AddSystemPrompt ==
  /\ pc = "prompt"
  /\ err = "none"
  /\ content_html' = content_html \o SystemPromptHtml(data)
  /\ msg_i' = 1
  /\ pc' = "messages"
  /\ UNCHANGED <<data, html_content, out_file, out_opens, err, fvars, wvars>>

\* one iteration of  for i, message in enumerate(...)  (lines 35-219)
ProcessMessage ==
  /\ pc = "messages"
  /\ err = "none"
  /\ msg_i <= Len(Messages(data))
  /\ LET r == MessageHtml(Messages(data)[msg_i])
     IN IF r.ok
          THEN /\ content_html' = content_html \o r.out
               /\ msg_i' = msg_i + 1
               /\ UNCHANGED <<pc, err>>
          ELSE /\ err' = "KeyError"
               /\ UNCHANGED <<content_html, msg_i, pc>>
  /\ UNCHANGED <<data, html_content, out_file, out_opens, fvars, wvars>>

\* the loop is over: the page is put together (lines 221-658)
BuildDocument ==
  /\ pc = "messages"
  /\ err = "none"
  /\ msg_i > Len(Messages(data))
  /\ html_content' = Template(data, content_html)
  /\ pc' = "assembled"
  /\ UNCHANGED <<data, msg_i, content_html, out_file, out_opens, err, fvars, wvars>>

\* open(output_file, 'w') creates or truncates the file (line 661)
OpenOutput ==
  /\ pc = "assembled"
  /\ err = "none"
  /\ out_file' = "truncated"
  /\ out_opens' = out_opens + 1
  /\ pc' = "opened"
  /\ UNCHANGED <<data, msg_i, content_html, html_content, err, fvars, wvars>>

\* the output path cannot be opened for writing
OpenFails ==
  /\ pc = "assembled"
  /\ err = "none"
  /\ err' = "OSError"
  /\ pc' = pc
  /\ UNCHANGED <<data, msg_i, content_html, html_content, out_file, out_opens,
                 fvars, wvars>>

\* f.write(html_content), close, print (lines 662-664)
WriteOutput ==
  /\ pc = "opened"
  /\ err = "none"
  /\ out_file' = "written"
  /\ pc' = "done"
  /\ UNCHANGED <<data, msg_i, content_html, html_content, out_opens, err, fvars, wvars>>

\* the write fails after the file was opened
WriteFails ==
  /\ pc = "opened"
  /\ err = "none"
  /\ err' = "OSError"
  /\ pc' = pc
  /\ UNCHANGED <<data, msg_i, content_html, html_content, out_file, out_opens,
                 fvars, wvars>>

Next ==
  \/ LoadInput
  \/ LoadFails
  \/ AddSystemPrompt
  \/ ProcessMessage
  \/ BuildDocument
  \/ OpenOutput
  \/ OpenFails
  \/ WriteOutput
  \/ WriteFails

Spec == Init /\ [][Next]_vars

(***************************************************************************)
(* Properties of the whole conversion (checked under Spec).                *)
(***************************************************************************)
\* the content is complete: the loop over the messages is over
Assembled == pc \in {"assembled", "opened", "done"}

NumWithVersion(ms) == Cardinality({ j \in 1..Len(ms) : HasVersion(ms[j]) })

\* C3: the chat container holds one message block, opened once and closed
\* once, for each entry of messages that has a non-empty versions list, and
\* none for the other entries.
C3_OneBlockPerMessage ==
  Assembled =>
    /\ Count(html_content, Html.MsgOpen) = NumWithVersion(Messages(data))
    /\ Count(html_content, Html.MsgClose) = NumWithVersion(Messages(data))
    /\ Contains(html_content, <<Html.ChatOpen>> \o content_html)

\* an entry with two versions and an entry without any
C3_Witness ==
  /\ pc = "done"
  /\ Len(Messages(data)) = 2
  /\ HasVersion(Messages(data)[1])
  /\ Len(Messages(data)[1].versions) = 2
  /\ ~HasVersion(Messages(data)[2])
  /\ Count(html_content, Html.MsgOpen) = 1

\* C7: the conversion never fails on a field that is absent below a version.
C7_AbsentFieldsTolerated == err # "KeyError"

Rank(p) ==
  CASE p = "start" -> 0
    [] p = "prompt" -> 1
    [] p = "messages" -> 2
    [] p = "assembled" -> 3
    [] p = "opened" -> 4
    [] p = "done" -> 5
    [] OTHER -> 6

\* C8: the steps run in the order read, assemble, write; the output is
\* opened at most once and only when the page is complete; nothing runs
\* after a failure; a failure before the page is complete leaves the output
\* untouched.
C8_PipelineOrder ==
  [][ /\ err = "none"
      /\ Rank(pc') >= Rank(pc)
      /\ out_opens' <= 1
      /\ out_opens' # out_opens =>
           /\ pc = "assembled"
           /\ msg_i > Len(Messages(data))
           /\ html_content = Template(data, content_html)
      /\ out_file' # out_file => pc \in {"assembled", "opened"}
      /\ (err' # "none" /\ Rank(pc') <= 2) =>
           /\ out_file' = "untouched"
           /\ out_opens' = 0 ]_vars

\* the second message fails while it is transformed; the output is untouched
C8_Witness ==
  /\ err = "KeyError"
  /\ pc = "messages"
  /\ msg_i = 2
  /\ out_file = "untouched"
  /\ out_opens = 0

\* C9: the content holds a system prompt block exactly when the document
\* has a systemPrompt that is not empty.
C9_SystemPromptBlock ==
  Rank(pc) \in 2..5 =>
    LET n == IF Has(data, "systemPrompt") /\ data.systemPrompt # << >> THEN 1 ELSE 0
    IN /\ Count(content_html, Html.SysOpen) = n
       /\ Count(content_html, Html.SysTitle) = n

\* a document without systemPrompt, converted to the end, with a message
C9_Witness ==
  /\ pc = "done"
  /\ ~Has(data, "systemPrompt")
  /\ NumWithVersion(Messages(data)) > 0
  /\ Count(html_content, Html.SysOpen) = 0

====
